---- MODULE Spec2Model ----
(***************************************************************************)
(* DataCollector of the k8sclusterreceiver collection package              *)
(* (receiver/k8sclusterreceiver/internal/collection/collector.go).         *)
(*                                                                         *)
(* The collector wraps a metricsStore (UID -> pmetric.Metrics) and a       *)
(* metadataStore (GroupVersionKind -> cache.Store).  The handlers          *)
(* SyncMetrics, UpdateMetricsStore, RemoveFromMetricsStore,                *)
(* CollectMetricData, SyncMetadata and SetupMetadataStore are modelled     *)
(* from collector.go; the two stores live in files of the package that are *)
(* not part of the source tree at hand and are modelled from the design    *)
(* document (sections 4.1 and 4.2).                                        *)
(***************************************************************************)
EXTENDS Integers, Sequences, FiniteSets, TLC

VARIABLES
    metricsCache,   \* dc.metricsStore.metricsCache: UID -> pmetric.Metrics
    stores,         \* dc.metadataStore.stores: GroupVersionKind -> cache.Store
    crashed,        \* TRUE once a handler has panicked (the process is gone)
    last,           \* what the most recent handler call was given and produced
    pc,             \* per goroutine: the place it has reached in its handler
    frame,          \* per goroutine: the object and records its handler holds
    delivered,      \* per UID: the event the watch layer handed over last
    written         \* per UID: the write of a goroutine that passed the store's
                    \* lock last

vars == <<metricsCache, stores, crashed, last, pc, frame, delivered, written>>

----------------------------------------------------------------------------
(* Bounds of the model *)

NumUIDs == 2
MaxTime == 2
NumGoroutines == 2

UIDs == 1..NumUIDs
NoUID == 0
\* the data points a derivation can yield: two, so that two record sets differ
Points == 1..2
Times == 1..MaxTime
\* the informer caches a kind can be registered with
CacheRefs == { "informerStoreA", "informerStoreB" }
Goroutines == 1..NumGoroutines

----------------------------------------------------------------------------
(* The Go types an event object can have *)

\* the fourteen cases of the type switch in SyncMetrics
MetricsKinds ==
    { "*corev1.Pod", "*corev1.Node", "*corev1.Namespace",
      "*corev1.ReplicationController", "*corev1.ResourceQuota",
      "*appsv1.Deployment", "*appsv1.ReplicaSet", "*appsv1.DaemonSet",
      "*appsv1.StatefulSet", "*batchv1.Job", "*batchv1.CronJob",
      "*batchv1beta1.CronJob",
      "*autoscalingv2beta2.HorizontalPodAutoscaler",
      "*quotav1.ClusterResourceQuota" }

\* a runtime.Object with object metadata that no case of the switches names
OtherMetaKinds == { "*corev1.Service" }

\* runtime.Objects that carry no object metadata (no UID to resolve)
NoMetaKinds == { "*metav1.Status", "*runtime.Unknown" }

\* values that are no runtime.Object at all: the informer's tombstone for a
\* missed delete, and the nil interface
NonObjectKinds == { "cache.DeletedFinalStateUnknown", "nil" }

Kinds == MetricsKinds \cup OtherMetaKinds \cup NoMetaKinds \cup NonObjectKinds

\* one opencensus ExportMetricsServiceRequest: the points of one resource
Requests == { [metrics |-> S] : S \in {{}} \cup { {p} : p \in Points } }

\* what a metrics function of the package yields for one object
OcsInputs == { <<>> } \cup { <<r>> : r \in Requests }

\* the kinds whose objects the model feeds with every UID (and with none: a
\* malformed object) and every derivation result; the other kinds come with
\* the first UID and with an empty or a one-point derivation
ContentKinds == { "*corev1.Pod", "*appsv1.Deployment" }

\* an event object: its Go type, its UID, and (its content, seen through the
\* kind's metrics function) the requests that function derives from it
Objects ==
    { [kind |-> k, uid |-> u, ocs |-> c] :
          k \in ContentKinds, u \in UIDs \cup {NoUID}, c \in OcsInputs }
    \cup { [kind |-> k, uid |-> 1, ocs |-> c] :
               k \in MetricsKinds \ ContentKinds,
               c \in { <<>>, << [metrics |-> {1}] >> } }
    \cup { [kind |-> k, uid |-> 1, ocs |-> <<>>] : k \in OtherMetaKinds }
    \cup { [kind |-> k, uid |-> NoUID, ocs |-> <<>>] :
               k \in NoMetaKinds \cup NonObjectKinds }

\* the objects as the handlers that do not derive metrics see them
Shapes == { o \in Objects : o.ocs = <<>> }

\* the objects the store's entry points are called with directly
StoreShapes == { o \in Shapes : o.kind \notin MetricsKinds \ ContentKinds }

\* the objects of the concurrent runs
PodObjects == { o \in Objects : o.kind = "*corev1.Pod" /\ o.uid \in UIDs }

----------------------------------------------------------------------------
(* Pure parts of collector.go *)

\* obj.(runtime.Object): does the unchecked conversion succeed
IsRuntimeObject(obj) == obj.kind \notin NonObjectKinds

\* reflect.TypeOf(obj).String(): the package name, not the import alias
TypeOf(obj) ==
    CASE obj.kind = "*corev1.Pod" -> "*v1.Pod"
      [] obj.kind = "*corev1.Node" -> "*v1.Node"
      [] obj.kind = "*corev1.Namespace" -> "*v1.Namespace"
      [] obj.kind = "*corev1.ReplicationController" -> "*v1.ReplicationController"
      [] obj.kind = "*corev1.ResourceQuota" -> "*v1.ResourceQuota"
      [] obj.kind = "*appsv1.Deployment" -> "*v1.Deployment"
      [] obj.kind = "*appsv1.ReplicaSet" -> "*v1.ReplicaSet"
      [] obj.kind = "*appsv1.DaemonSet" -> "*v1.DaemonSet"
      [] obj.kind = "*appsv1.StatefulSet" -> "*v1.StatefulSet"
      [] obj.kind = "*batchv1.Job" -> "*v1.Job"
      [] obj.kind = "*batchv1.CronJob" -> "*v1.CronJob"
      [] obj.kind = "*batchv1beta1.CronJob" -> "*v1beta1.CronJob"
      [] obj.kind = "*autoscalingv2beta2.HorizontalPodAutoscaler" ->
             "*v2beta2.HorizontalPodAutoscaler"
      [] obj.kind = "*quotav1.ClusterResourceQuota" -> "*v1.ClusterResourceQuota"
      [] obj.kind = "*corev1.Service" -> "*v1.Service"
      [] obj.kind = "*metav1.Status" -> "*v1.Status"
      [] OTHER -> obj.kind

\* the cases of the type switch of SyncMetrics, each with the metrics
\* function it calls
MetricsCases ==
    ("*corev1.Pod" :> "getMetricsForPod")
    @@ ("*corev1.Node" :> "getMetricsForNode")
    @@ ("*corev1.Namespace" :> "getMetricsForNamespace")
    @@ ("*corev1.ReplicationController" :> "getMetricsForReplicationController")
    @@ ("*corev1.ResourceQuota" :> "getMetricsForResourceQuota")
    @@ ("*appsv1.Deployment" :> "getMetricsForDeployment")
    @@ ("*appsv1.ReplicaSet" :> "getMetricsForReplicaSet")
    @@ ("*appsv1.DaemonSet" :> "getMetricsForDaemonSet")
    @@ ("*appsv1.StatefulSet" :> "getMetricsForStatefulSet")
    @@ ("*batchv1.Job" :> "getMetricsForJob")
    @@ ("*batchv1.CronJob" :> "getMetricsForCronJob")
    @@ ("*batchv1beta1.CronJob" :> "getMetricsForCronJobBeta")
    @@ ("*autoscalingv2beta2.HorizontalPodAutoscaler" :> "getMetricsForHPA")
    @@ ("*quotav1.ClusterResourceQuota" :> "getMetricsForClusterResourceQuota")

\* a switch that lacks the last case
MetricsFn_NoClusterResourceQuota(kind) ==
    IF kind \in DOMAIN MetricsCases \ { "*quotav1.ClusterResourceQuota" }
    THEN MetricsCases[kind]
    ELSE "none"

\* the type switch of SyncMetrics: the metrics function of the matching
\* case, "none" for the default branch
MetricsFn(kind) ==
    IF kind \in DOMAIN MetricsCases THEN MetricsCases[kind] ELSE "none"

\* the cases of the type switch of SyncMetadata, each with the metadata
\* function it calls
MetadataCases ==
    ("*corev1.Pod" :> "getMetadataForPod")
    @@ ("*corev1.Node" :> "getMetadataForNode")
    @@ ("*corev1.ReplicationController" :> "getMetadataForReplicationController")
    @@ ("*appsv1.Deployment" :> "getMetadataForDeployment")
    @@ ("*appsv1.ReplicaSet" :> "getMetadataForReplicaSet")
    @@ ("*appsv1.DaemonSet" :> "getMetadataForDaemonSet")
    @@ ("*appsv1.StatefulSet" :> "getMetadataForStatefulSet")
    @@ ("*batchv1.Job" :> "getMetadataForJob")
    @@ ("*batchv1.CronJob" :> "getMetadataForCronJob")
    @@ ("*batchv1beta1.CronJob" :> "getMetadataForCronJobBeta")
    @@ ("*autoscalingv2beta2.HorizontalPodAutoscaler" :> "getMetadataForHPA")

\* a switch whose Job case was pasted over the v1beta1 CronJob case
MetadataFn_BetaCronJobAsJob(kind) ==
    IF kind = "*batchv1beta1.CronJob" THEN "getMetadataForJob"
    ELSE IF kind \in DOMAIN MetadataCases THEN MetadataCases[kind] ELSE "none"

\* the type switch of SyncMetadata: the metadata function of the matching
\* case, "none" when no case matches
MetadataFn(kind) ==
    IF kind \in DOMAIN MetadataCases THEN MetadataCases[kind] ELSE "none"

\* ocsToMetrics: one ResourceMetrics per request, appended in order
ocsToMetrics(ocs) == [i \in 1..Len(ocs) |-> [points |-> ocs[i].metrics]]

RECURSIVE SumPoints(_, _)
SumPoints(md, i) ==
    IF i > Len(md) THEN 0 ELSE Cardinality(md[i].points) + SumPoints(md, i + 1)

\* md.DataPointCount()
DataPointCount(md) == SumPoints(md, 1)

\* the pmetric.Metrics values a caller can hand to UpdateMetricsStore
MetricsInputs == { ocsToMetrics(c) : c \in OcsInputs }

\* the points of a pmetric.Metrics, whatever the ResourceMetrics they sit in
PointsOf(md) == UNION { md[i].points : i \in 1..Len(md) }

----------------------------------------------------------------------------
(* Go maps *)

EmptyMap == [x \in {} |-> 0]
Put(m, k, v) == [x \in DOMAIN m \cup {k} |-> IF x = k THEN v ELSE m[x]]
Delete(m, k) == [x \in DOMAIN m \ {k} |-> m[x]]

----------------------------------------------------------------------------
(* The metrics store (design document, section 4.1).  Each operation runs  *)
(* under the store's lock, so each is one atomic step.                     *)

\* resolve the identity of a runtime.Object: an object that carries no
\* usable UID (one without object metadata, or a malformed one) has none
GetUIDForObject(obj) ==
    IF obj.kind \in NoMetaKinds \/ obj.uid = NoUID
    THEN [uid |-> NoUID, err |-> "IdentityResolutionError"]
    ELSE [uid |-> obj.uid, err |-> "nil"]

\* an update that adds the records to the entry held instead of replacing it
StoreUpdate_Merges(cache, obj, md) ==
    LET id == GetUIDForObject(obj)
        held == IF id.uid \in DOMAIN cache THEN cache[id.uid] ELSE <<>> IN
    IF id.err # "nil" THEN [cache |-> cache, err |-> id.err]
    ELSE IF DataPointCount(md) = 0 THEN [cache |-> cache, err |-> "nil"]
    ELSE [cache |-> Put(cache, id.uid, held \o md), err |-> "nil"]

\* an update that writes whatever it is given
StoreUpdate_WritesEmpty(cache, obj, md) ==
    LET id == GetUIDForObject(obj) IN
    IF id.err # "nil" THEN [cache |-> cache, err |-> id.err]
    ELSE [cache |-> Put(cache, id.uid, md), err |-> "nil"]

\* metricsStore.update: replace the entry wholesale; an empty record set is
\* not written
StoreUpdate(cache, obj, md) ==
    LET id == GetUIDForObject(obj) IN
    IF id.err # "nil" THEN [cache |-> cache, err |-> id.err]
    ELSE IF DataPointCount(md) = 0 THEN [cache |-> cache, err |-> "nil"]
    ELSE [cache |-> Put(cache, id.uid, md), err |-> "nil"]

\* metricsStore.remove: delete the entry if there is one
StoreRemove(cache, obj) ==
    LET id == GetUIDForObject(obj) IN
    IF id.err # "nil" THEN [cache |-> cache, err |-> id.err]
    ELSE [cache |-> Delete(cache, id.uid), err |-> "nil"]

\* metricsStore.getMetricData: every stored record, tagged with the identity
\* it belongs to, stamped with the collection time
StoreGetMetricData(cache, currentTime) ==
    [asOf |-> currentTime,
     records |-> UNION { { <<u, p>> : p \in PointsOf(cache[u]) } : u \in DOMAIN cache }]

\* a setupStore that keeps the cache registered first
StoreSetup_KeepsFirst(st, gvk, store) ==
    IF gvk \in DOMAIN st THEN st ELSE Put(st, gvk, store)

\* metadataStore.setupStore: install (or replace) the cache of a kind
StoreSetup(st, gvk, store) == Put(st, gvk, store)

\* the keys a lookup may ask for, and the keys each watch cache holds (the
\* caches are filled by the watch subsystem, not by the collector)
Keys == { "default/svc-a", "default/svc-b", "default/svc-c" }
CacheContents ==
    ("informerStoreA" :> { "default/svc-a" })
    @@ ("informerStoreB" :> { "default/svc-a", "default/svc-b" })

\* cache.Store.GetByKey on one watch cache
CacheGet(store, key) ==
    IF key \in CacheContents[store]
    THEN [obj |-> <<store, key>>, err |-> "nil"]
    ELSE [obj |-> "nil", err |-> "NotFound"]

\* metadataStore lookup: ask the cache registered for the kind
StoreGet(st, gvk, key) ==
    IF gvk \notin DOMAIN st
    THEN [obj |-> "nil", err |-> "NotFound"]
    ELSE CacheGet(st[gvk], key)

----------------------------------------------------------------------------
(* The handlers of DataCollector, as functions of the state they read.     *)
(* Each yields the store it leaves, the entries it hands to dc.logger,     *)
(* whether it panicked, and the number of metricsStore.update calls made.  *)

LogEntry(msg, obj, err) == [msg |-> msg, obj |-> TypeOf(obj), err |-> err]

\* a RemoveFromMetricsStore pasted from UpdateMetricsStore that still calls
\* update (with nothing to write)
RemoveFromMetricsStoreCall_CallsUpdate(cache, obj) ==
    IF ~IsRuntimeObject(obj)
    THEN [cache |-> cache, logged |-> <<>>, panicked |-> TRUE, updates |-> 0]
    ELSE LET r == StoreUpdate(cache, obj, <<>>) IN
         [cache |-> r.cache,
          logged |-> IF r.err # "nil"
                     THEN << LogEntry("failed to remove from metric cache", obj, r.err) >>
                     ELSE <<>>,
          panicked |-> FALSE,
          updates |-> 1]

\* RemoveFromMetricsStore(obj)
RemoveFromMetricsStoreCall(cache, obj) ==
    IF ~IsRuntimeObject(obj)
    THEN [cache |-> cache, logged |-> <<>>, panicked |-> TRUE, updates |-> 0]
    ELSE LET r == StoreRemove(cache, obj) IN
         [cache |-> r.cache,
          logged |-> IF r.err # "nil"
                     THEN << LogEntry("failed to remove from metric cache", obj, r.err) >>
                     ELSE <<>>,
          panicked |-> FALSE,
          updates |-> 0]

\* an UpdateMetricsStore pasted from RemoveFromMetricsStore that still calls
\* remove
UpdateMetricsStoreCall_CallsRemove(cache, obj, md) ==
    IF ~IsRuntimeObject(obj)
    THEN [cache |-> cache, logged |-> <<>>, panicked |-> TRUE, updates |-> 0]
    ELSE LET r == StoreRemove(cache, obj) IN
         [cache |-> r.cache,
          logged |-> IF r.err # "nil"
                     THEN << LogEntry("failed to update metric cache", obj, r.err) >>
                     ELSE <<>>,
          panicked |-> FALSE,
          updates |-> 0]

\* an UpdateMetricsStore that drops the error of update
UpdateMetricsStoreCall_DropsError(cache, obj, md) ==
    IF ~IsRuntimeObject(obj)
    THEN [cache |-> cache, logged |-> <<>>, panicked |-> TRUE, updates |-> 0]
    ELSE LET r == StoreUpdate(cache, obj, md) IN
         [cache |-> r.cache, logged |-> <<>>, panicked |-> FALSE, updates |-> 1]

\* UpdateMetricsStore(obj, md)
UpdateMetricsStoreCall(cache, obj, md) ==
    IF ~IsRuntimeObject(obj)
    THEN [cache |-> cache, logged |-> <<>>, panicked |-> TRUE, updates |-> 0]
    ELSE LET r == StoreUpdate(cache, obj, md) IN
         [cache |-> r.cache,
          logged |-> IF r.err # "nil"
                     THEN << LogEntry("failed to update metric cache", obj, r.err) >>
                     ELSE <<>>,
          panicked |-> FALSE,
          updates |-> 1]

\* the getMetricsFor... functions: pure in the object
CallMetricsFn(fn, obj) == obj.ocs

\* a SyncMetrics that tests md.ResourceMetrics().Len() instead of the number
\* of data points
SyncMetricsDerive_TestsLen(obj) ==
    LET fn == MetricsFn(obj.kind) IN
    IF fn = "none"
    THEN [invoked |-> "none", md |-> <<>>, write |-> FALSE]
    ELSE LET md == ocsToMetrics(CallMetricsFn(fn, obj)) IN
         [invoked |-> fn, md |-> md, write |-> Len(md) # 0]

\* the first half of SyncMetrics: the type switch and the derivation
SyncMetricsDerive(obj) ==
    LET fn == MetricsFn(obj.kind) IN
    IF fn = "none"
    THEN [invoked |-> "none", md |-> <<>>, write |-> FALSE]
    ELSE LET md == ocsToMetrics(CallMetricsFn(fn, obj)) IN
         [invoked |-> fn, md |-> md, write |-> DataPointCount(md) # 0]

\* a SyncMetrics that adds the derived records to the entry the store holds
SyncMetricsCall_Accumulates(cache, obj) ==
    LET d == SyncMetricsDerive(obj)
        held == IF obj.uid \in DOMAIN cache THEN cache[obj.uid] ELSE <<>> IN
    IF d.write
    THEN UpdateMetricsStoreCall(cache, obj, held \o d.md)
    ELSE [cache |-> cache, logged |-> <<>>, panicked |-> FALSE, updates |-> 0]

\* a SyncMetrics without the default branch's return and without the check
\* for an empty derivation
SyncMetricsCall_AlwaysUpdates(cache, obj) ==
    LET d == SyncMetricsDerive(obj) IN
    UpdateMetricsStoreCall(cache, obj, d.md)

\* a SyncMetrics that evicts the entry when the derivation is empty
SyncMetricsCall_EvictsOnEmpty(cache, obj) ==
    LET d == SyncMetricsDerive(obj) IN
    IF d.write
    THEN UpdateMetricsStoreCall(cache, obj, d.md)
    ELSE IF d.invoked # "none"
    THEN RemoveFromMetricsStoreCall(cache, obj)
    ELSE [cache |-> cache, logged |-> <<>>, panicked |-> FALSE, updates |-> 0]

\* SyncMetrics(obj)
SyncMetricsCall(cache, obj) ==
    LET d == SyncMetricsDerive(obj) IN
    IF d.write
    THEN UpdateMetricsStoreCall(cache, obj, d.md)
    ELSE [cache |-> cache, logged |-> <<>>, panicked |-> FALSE, updates |-> 0]

\* the getMetadataFor... functions: one entry, keyed by the object's
\* ResourceID; the Pod's consults the metadata store
CallMetadataFn(fn, obj, st) ==
    obj.uid :> [producedBy |-> fn,
                consulted |-> IF fn = "getMetadataForPod" THEN DOMAIN st ELSE {}]

\* SyncMetadata(obj)
SyncMetadataCall(st, obj) ==
    LET fn == MetadataFn(obj.kind) IN
    IF fn = "none"
    THEN [invoked |-> "none", km |-> [isNil |-> FALSE, entries |-> EmptyMap]]
    ELSE [invoked |-> fn, km |-> [isNil |-> FALSE, entries |-> CallMetadataFn(fn, obj, st)]]

----------------------------------------------------------------------------
(* State *)

\* the kinds SetupMetadataStore is called for
GVKs == { "/v1, Kind=Service", "batch/v1, Kind=Job" }

NoSnapshot == [asOf |-> 0, records |-> {}]

NoMetadata == [isNil |-> TRUE, entries |-> EmptyMap]

NoSetup == [gvk |-> "", store |-> "", replaced |-> ""]

\* the call repeats the call before it: the same handler was given the same
\* object and the same records
Repeats(op, obj, md) ==
    /\ last.op = op
    /\ last.kind = obj.kind
    /\ last.uid = obj.uid
    /\ last.md = md

\* the record of a handler call: what it was given (op, kind, uid, md; for
\* SetupMetadataStore: setup), whether the store held an entry for the
\* object's UID when it was entered (had), whether it is a collect or a writing
\* change that repeats the call before it (dup), and what it produced
Call(op, obj, md, invoked, out, snapshot, km) ==
    [op |-> op, kind |-> obj.kind, uid |-> obj.uid, md |-> md,
     had |-> obj.uid \in DOMAIN metricsCache,
     dup |-> /\ op = "CollectMetricData" \/ (op = "SyncMetrics" /\ out.updates = 1)
             /\ Repeats(op, obj, md),
     setup |-> NoSetup,
     invoked |-> invoked, logged |-> out.logged, updates |-> out.updates,
     snapshot |-> snapshot, km |-> km]

NoObject == [kind |-> "nil", uid |-> NoUID, ocs |-> <<>>]
NoOutcome == [logged |-> <<>>, updates |-> 0]
NoWrite == [op |-> "none", md |-> <<>>]

\* NewDataCollector: an empty metrics cache, an empty metadata store
Init ==
    /\ metricsCache = EmptyMap
    /\ stores = EmptyMap
    /\ crashed = FALSE
    /\ last = Call("NewDataCollector", NoObject, <<>>, "none", NoOutcome, NoSnapshot, NoMetadata)
    /\ pc = [g \in Goroutines |-> "idle"]
    /\ frame = [g \in Goroutines |-> [obj |-> NoObject, md |-> <<>>]]
    /\ delivered = [u \in UIDs |-> "none"]
    /\ written = [u \in UIDs |-> NoWrite]

Idle == \A g \in Goroutines : pc[g] = "idle"

----------------------------------------------------------------------------
(* The handlers called one at a time *)

SetupMetadataStore ==
    \E gvk \in GVKs, store \in CacheRefs :
        /\ ~crashed /\ Idle
        /\ stores' = StoreSetup(stores, gvk, store)
        /\ last' = [Call("SetupMetadataStore", NoObject, <<>>, "none", NoOutcome,
                         NoSnapshot, NoMetadata)
                        EXCEPT !.setup =
                            [gvk |-> gvk, store |-> store,
                             replaced |-> IF gvk \in DOMAIN stores
                                          THEN stores[gvk] ELSE ""]]
        /\ UNCHANGED <<metricsCache, crashed, pc, frame, delivered, written>>

RemoveFromMetricsStore ==
    \E obj \in StoreShapes :
        LET out == RemoveFromMetricsStoreCall(metricsCache, obj) IN
        /\ ~crashed /\ Idle
        /\ metricsCache' = out.cache
        /\ crashed' = out.panicked
        /\ last' = Call("RemoveFromMetricsStore", obj, <<>>, "none", out,
                        NoSnapshot, NoMetadata)
        /\ UNCHANGED <<stores, pc, frame, delivered, written>>

UpdateMetricsStore ==
    \E obj \in StoreShapes, md \in MetricsInputs :
        LET out == UpdateMetricsStoreCall(metricsCache, obj, md) IN
        /\ ~crashed /\ Idle
        /\ metricsCache' = out.cache
        /\ crashed' = out.panicked
        /\ last' = Call("UpdateMetricsStore", obj, md, "none", out,
                        NoSnapshot, NoMetadata)
        /\ UNCHANGED <<stores, pc, frame, delivered, written>>

\* a collect that hands the entries over and starts afresh
CollectMetricData_Drains ==
    \E currentTime \in Times :
        /\ ~crashed /\ Idle
        /\ last' = Call("CollectMetricData", NoObject, <<>>, "none", NoOutcome,
                        StoreGetMetricData(metricsCache, currentTime), NoMetadata)
        /\ metricsCache' = EmptyMap
        /\ UNCHANGED <<stores, crashed, pc, frame, delivered, written>>

CollectMetricData ==
    \E currentTime \in Times :
        /\ ~crashed /\ Idle
        /\ last' = Call("CollectMetricData", NoObject, <<>>, "none", NoOutcome,
                        StoreGetMetricData(metricsCache, currentTime), NoMetadata)
        /\ UNCHANGED <<metricsCache, stores, crashed, pc, frame, delivered, written>>

SyncMetrics ==
    \E obj \in Objects :
        LET d == SyncMetricsDerive(obj)
            out == SyncMetricsCall(metricsCache, obj) IN
        /\ ~crashed /\ Idle
        /\ metricsCache' = out.cache
        /\ crashed' = out.panicked
        /\ last' = Call("SyncMetrics", obj, d.md, d.invoked, out, NoSnapshot, NoMetadata)
        /\ UNCHANGED <<stores, pc, frame, delivered, written>>

\* a SyncMetadata that does what the comment above it says ("updates the
\* metric store"): it stores a record set for the object
SyncMetadata_UpdatesMetricsStore ==
    \E obj \in Shapes :
        LET r == SyncMetadataCall(stores, obj)
            out == UpdateMetricsStoreCall(metricsCache, obj, <<[points |-> {1}]>>) IN
        /\ ~crashed /\ Idle
        /\ metricsCache' = out.cache
        /\ crashed' = out.panicked
        /\ last' = Call("SyncMetadata", obj, <<>>, r.invoked, NoOutcome, NoSnapshot, r.km)
        /\ UNCHANGED <<stores, pc, frame, delivered, written>>

SyncMetadata ==
    \E obj \in Shapes :
        LET r == SyncMetadataCall(stores, obj) IN
        /\ ~crashed /\ Idle
        /\ last' = Call("SyncMetadata", obj, <<>>, r.invoked, NoOutcome, NoSnapshot, r.km)
        /\ UNCHANGED <<metricsCache, stores, crashed, pc, frame, delivered, written>>

Next ==
    \/ SetupMetadataStore
    \/ RemoveFromMetricsStore
    \/ UpdateMetricsStore
    \/ CollectMetricData
    \/ SyncMetrics
    \/ SyncMetadata

Spec == Init /\ [][Next]_vars

----------------------------------------------------------------------------
(* The handlers called from several goroutines.  A handler is cut where    *)
(* the code can be interleaved: SyncMetrics derives the records without    *)
(* any lock and only then enters the store; the store's operations run     *)
(* under its lock.  An event counts as delivered when its handler is       *)
(* entered.                                                                *)

NoFrame == [obj |-> NoObject, md |-> <<>>]

\* SyncMetrics, lines 128-165: the type switch, the derivation and the
\* check for an empty result
GoSyncMetrics(g) ==
    \E obj \in PodObjects :
        LET d == SyncMetricsDerive(obj) IN
        /\ ~crashed /\ pc[g] = "idle"
        /\ delivered' = [delivered EXCEPT ![obj.uid] = "changed"]
        /\ IF d.write
           THEN /\ pc' = [pc EXCEPT ![g] = "update"]
                /\ frame' = [frame EXCEPT ![g] = [obj |-> obj, md |-> d.md]]
                /\ UNCHANGED last
           ELSE /\ last' = Call("SyncMetrics", obj, d.md, d.invoked, NoOutcome,
                                NoSnapshot, NoMetadata)
                /\ UNCHANGED <<pc, frame>>
        /\ UNCHANGED <<metricsCache, stores, crashed, written>>

\* a SyncMetrics whose md is shared by all callers instead of being a local
\* variable: the update writes the records another caller derived meanwhile
GoUpdateMetricsStore_SharedMd(g) ==
    LET others == { h \in Goroutines \ {g} : pc[h] = "update" }
        md == IF others = {} THEN frame[g].md
              ELSE frame[CHOOSE h \in others : TRUE].md
        out == UpdateMetricsStoreCall(metricsCache, frame[g].obj, md) IN
    /\ ~crashed /\ pc[g] = "update"
    /\ metricsCache' = out.cache
    /\ crashed' = out.panicked
    /\ last' = Call("SyncMetrics", frame[g].obj, md,
                    MetricsFn(frame[g].obj.kind), out, NoSnapshot, NoMetadata)
    /\ written' = [written EXCEPT ![frame[g].obj.uid] = [op |-> "update", md |-> md]]
    /\ pc' = [pc EXCEPT ![g] = "idle"]
    /\ frame' = [frame EXCEPT ![g] = NoFrame]
    /\ UNCHANGED <<stores, delivered>>

\* SyncMetrics, line 167: UpdateMetricsStore with the records derived before
GoUpdateMetricsStore(g) ==
    LET out == UpdateMetricsStoreCall(metricsCache, frame[g].obj, frame[g].md) IN
    /\ ~crashed /\ pc[g] = "update"
    /\ metricsCache' = out.cache
    /\ crashed' = out.panicked
    /\ last' = Call("SyncMetrics", frame[g].obj, frame[g].md,
                    MetricsFn(frame[g].obj.kind), out, NoSnapshot, NoMetadata)
    /\ written' = [written EXCEPT ![frame[g].obj.uid] =
                                      [op |-> "update", md |-> frame[g].md]]
    /\ pc' = [pc EXCEPT ![g] = "idle"]
    /\ frame' = [frame EXCEPT ![g] = NoFrame]
    /\ UNCHANGED <<stores, delivered>>

\* RemoveFromMetricsStore is entered with the Deleted event's object
GoDeleted(g) ==
    \E obj \in PodObjects \cap Shapes :
        /\ ~crashed /\ pc[g] = "idle"
        /\ delivered' = [delivered EXCEPT ![obj.uid] = "deleted"]
        /\ pc' = [pc EXCEPT ![g] = "remove"]
        /\ frame' = [frame EXCEPT ![g] = [obj |-> obj, md |-> <<>>]]
        /\ UNCHANGED <<metricsCache, stores, crashed, last, written>>

\* RemoveFromMetricsStore, lines 103-109
GoRemoveFromMetricsStore(g) ==
    LET out == RemoveFromMetricsStoreCall(metricsCache, frame[g].obj) IN
    /\ ~crashed /\ pc[g] = "remove"
    /\ metricsCache' = out.cache
    /\ crashed' = out.panicked
    /\ last' = Call("RemoveFromMetricsStore", frame[g].obj, <<>>, "none", out,
                    NoSnapshot, NoMetadata)
    /\ written' = [written EXCEPT ![frame[g].obj.uid] = [op |-> "remove", md |-> <<>>]]
    /\ pc' = [pc EXCEPT ![g] = "idle"]
    /\ frame' = [frame EXCEPT ![g] = NoFrame]
    /\ UNCHANGED <<stores, delivered>>

\* CollectMetricData on the export timer's goroutine
GoCollectMetricData ==
    \E currentTime \in Times :
        /\ ~crashed
        /\ last' = Call("CollectMetricData", NoObject, <<>>, "none", NoOutcome,
                        StoreGetMetricData(metricsCache, currentTime), NoMetadata)
        /\ UNCHANGED <<metricsCache, stores, crashed, pc, frame, delivered, written>>

NextConc ==
    \/ \E g \in Goroutines : GoSyncMetrics(g)
    \/ \E g \in Goroutines : GoUpdateMetricsStore(g)
    \/ \E g \in Goroutines : GoDeleted(g)
    \/ \E g \in Goroutines : GoRemoveFromMetricsStore(g)
    \/ GoCollectMetricData

SpecConc == Init /\ [][NextConc]_vars

\* the watch layer hands the Deleted event of identity u to a handler
DeliverDeleted(u) ==
    \E g \in Goroutines : GoDeleted(g) /\ frame'[g].obj.uid = u

\* The concurrent handlers under fair scheduling, with the watch layer's
\* guarantee: a handler that has entered the store call is run to its end,
\* and an identity whose latest delivered event is a change has its Deleted
\* event delivered at some time.
SpecLive ==
    /\ Init
    /\ [][NextConc]_vars
    /\ \A g \in Goroutines :
          /\ WF_vars(GoUpdateMetricsStore(g))
          /\ WF_vars(GoRemoveFromMetricsStore(g))
    /\ \A u \in UIDs : SF_vars(delivered[u] = "changed" /\ DeliverDeleted(u))

----------------------------------------------------------------------------
(* Properties *)

\* the records a snapshot holds for one identity
RecordsFor(snapshot, u) == { p \in Points : <<u, p>> \in snapshot.records }

\* a call that supplied a non-empty record set for a resolvable identity
NonEmptyChange(c) ==
    /\ c.op \in { "SyncMetrics", "UpdateMetricsStore" }
    /\ c.uid \in UIDs
    /\ DataPointCount(c.md) > 0

\* C1: a non-empty change for an identity leaves exactly one entry for it,
\* equal to the record set just supplied (whatever the entry held before),
\* and a collect that follows returns for that identity exactly the points of
\* that record set: neither the older set nor a merge of the two.
C1_LatestRecordsOnly ==
    [][ /\ NonEmptyChange(last') =>
              /\ last'.uid \in DOMAIN metricsCache'
              /\ metricsCache'[last'.uid] = last'.md
        /\ (NonEmptyChange(last) /\ last'.op = "CollectMetricData") =>
              RecordsFor(last'.snapshot, last.uid) = PointsOf(last.md) ]_vars

\* C1 witness: an entry was replaced: the identity had an entry when the
\* change arrived, and the store now holds the new record set for it
C1_Witness ==
    /\ NonEmptyChange(last)
    /\ last.op = "SyncMetrics"
    /\ last.had
    /\ PointsOf(metricsCache[last.uid]) = {2}
    /\ \E u \in DOMAIN metricsCache : PointsOf(metricsCache[u]) = {1}

\* C2: once every handler has returned, an identity whose last delivered
\* event is Deleted has no entry in the store (and so in no later collect).
C2_NoGhostAfterDelete ==
    \A u \in UIDs :
        (Idle /\ ~crashed /\ delivered[u] = "deleted") => u \notin DOMAIN metricsCache

\* C3: RemoveFromMetricsStore returns normally for every input; when no
\* identity can be resolved it logs one failure that names the object's type
\* and leaves the store as it was.
C3_RemoveNeverCrashes ==
    [][ last'.op = "RemoveFromMetricsStore" =>
            /\ ~crashed'
            /\ last'.uid = NoUID =>
                  /\ Len(last'.logged) = 1
                  /\ last'.logged[1].msg = "failed to remove from metric cache"
                  /\ metricsCache' = metricsCache ]_vars

\* C4: SyncMetrics on an object of a recognized kind whose derivation has no
\* data point issues no store update, logs nothing and leaves the store as it
\* was: a Present identity keeps its record set, an Unseen one stays Unseen.
C4_EmptyDerivationNoOp ==
    [][ ( /\ last'.op = "SyncMetrics"
          /\ last'.kind \in MetricsKinds
          /\ DataPointCount(last'.md) = 0 ) =>
            /\ metricsCache' = metricsCache
            /\ last'.updates = 0
            /\ last'.logged = <<>>
            /\ ~crashed' ]_vars

\* C4 witness: a derivation that produced a ResourceMetrics without any data
\* point arrived for an identity that is Present, and its entry is still there
C4_Witness ==
    /\ last.op = "SyncMetrics"
    /\ last.kind \in MetricsKinds
    /\ Len(last.md) > 0
    /\ DataPointCount(last.md) = 0
    /\ last.had
    /\ last.uid \in DOMAIN metricsCache

\* C5: UpdateMetricsStore with an empty record set for a resolvable identity
\* leaves the store as it was and reports no error.
C5_EmptyUpdateNoOp ==
    [][ ( /\ last'.op = "UpdateMetricsStore"
          /\ last'.uid \in UIDs
          /\ DataPointCount(last'.md) = 0 ) =>
            /\ metricsCache' = metricsCache
            /\ last'.logged = <<>>
            /\ ~crashed' ]_vars

\* C5 witness: an empty update arrived for an identity that had an entry
C5_Witness ==
    /\ last.op = "UpdateMetricsStore"
    /\ last.uid \in UIDs
    /\ DataPointCount(last.md) = 0
    /\ last.had
    /\ last.uid \in DOMAIN metricsCache

\* C6: after RemoveFromMetricsStore for a resolvable identity the identity
\* has no entry, whatever it had before, and the next collect holds no record
\* of it; when it had no entry before, the store is as it was; in both cases
\* nothing is logged.
C6_RemovedIsAbsent ==
    [][ /\ (last'.op = "RemoveFromMetricsStore" /\ last'.uid \in UIDs) =>
              /\ last'.uid \notin DOMAIN metricsCache'
              /\ last'.logged = <<>>
              /\ ~crashed'
              /\ last'.uid \notin DOMAIN metricsCache => metricsCache' = metricsCache
        /\ ( /\ last.op = "RemoveFromMetricsStore" /\ last.uid \in UIDs
             /\ last'.op = "CollectMetricData" ) =>
              RecordsFor(last'.snapshot, last.uid) = {} ]_vars

\* C6 witness: an entry was removed while another identity kept its own
C6_Witness ==
    /\ last.op = "RemoveFromMetricsStore"
    /\ last.uid \in UIDs
    /\ last.had
    /\ DOMAIN metricsCache = UIDs \ {last.uid}

MalformedTypeName ==
    ("*corev1.Pod" :> "*v1.Pod") @@ ("*appsv1.Deployment" :> "*v1.Deployment")

\* C8 as stated: SyncMetrics on an object whose identity cannot be resolved
\* attempts the store update, which fails and is logged; the store is as it
\* was and nothing crashes.
C8_UnresolvedChangeIsLogged ==
    [][ (last'.op = "SyncMetrics" /\ last'.uid = NoUID) =>
            /\ last'.updates = 1
            /\ Len(last'.logged) = 1
            /\ metricsCache' = metricsCache
            /\ ~crashed' ]_vars

\* C8 amended: SyncMetrics on an object whose identity cannot be resolved
\* leaves the store as it was and does not crash; the store update is
\* attempted, fails and is logged with the object's type exactly when the
\* object is of a recognized kind and its derivation has a data point;
\* otherwise no update is attempted and nothing is logged.
C8_UnresolvedChangeIsHarmless ==
    [][ (last'.op = "SyncMetrics" /\ last'.uid = NoUID) =>
            /\ metricsCache' = metricsCache
            /\ ~crashed'
            /\ IF last'.kind \in MetricsKinds /\ DataPointCount(last'.md) > 0
               THEN /\ last'.updates = 1
                    /\ last'.logged =
                         << [msg |-> "failed to update metric cache",
                             obj |-> MalformedTypeName[last'.kind],
                             err |-> "IdentityResolutionError"] >>
               ELSE /\ last'.updates = 0
                    /\ last'.logged = <<>> ]_vars

\* C8 witness: a malformed Pod with a non-empty derivation arrived while the
\* store held entries; the failure was logged and the entries are still there
C8_Witness ==
    /\ last.op = "SyncMetrics"
    /\ last.uid = NoUID
    /\ last.kind = "*corev1.Pod"
    /\ Len(last.logged) = 1
    /\ DOMAIN metricsCache = UIDs
    /\ ~crashed

\* the supported kinds of C9, each with its derivation function
C9_DerivationOf ==
    [ k \in MetricsKinds |->
        CASE k = "*corev1.Pod" -> "getMetricsForPod"
          [] k = "*corev1.Node" -> "getMetricsForNode"
          [] k = "*corev1.Namespace" -> "getMetricsForNamespace"
          [] k = "*corev1.ReplicationController" -> "getMetricsForReplicationController"
          [] k = "*corev1.ResourceQuota" -> "getMetricsForResourceQuota"
          [] k = "*appsv1.Deployment" -> "getMetricsForDeployment"
          [] k = "*appsv1.ReplicaSet" -> "getMetricsForReplicaSet"
          [] k = "*appsv1.DaemonSet" -> "getMetricsForDaemonSet"
          [] k = "*appsv1.StatefulSet" -> "getMetricsForStatefulSet"
          [] k = "*batchv1.Job" -> "getMetricsForJob"
          [] k = "*batchv1.CronJob" -> "getMetricsForCronJob"
          [] k = "*batchv1beta1.CronJob" -> "getMetricsForCronJobBeta"
          [] k = "*autoscalingv2beta2.HorizontalPodAutoscaler" -> "getMetricsForHPA"
          [] k = "*quotav1.ClusterResourceQuota" -> "getMetricsForClusterResourceQuota" ]

\* C9: SyncMetrics on an object of a supported kind invokes exactly that
\* kind's derivation function; on any other object, the nil one included, it
\* invokes none, derives nothing, logs nothing, issues no store update, does
\* not crash and leaves the store as it was.
C9_DispatchByKind ==
    [][ last'.op = "SyncMetrics" =>
            IF last'.kind \in MetricsKinds
            THEN last'.invoked = C9_DerivationOf[last'.kind]
            ELSE /\ last'.invoked = "none"
                 /\ last'.md = <<>>
                 /\ last'.logged = <<>>
                 /\ last'.updates = 0
                 /\ ~crashed'
                 /\ metricsCache' = metricsCache ]_vars

\* C9 witness: the nil object arrived while the store held entries
C9_Witness ==
    /\ last.op = "SyncMetrics"
    /\ last.kind = "nil"
    /\ DOMAIN metricsCache = UIDs
    /\ ~crashed

\* the metadata function of each kind that has one, in the words of C10
C10_MetadataOf ==
    ("*corev1.Pod" :> "getMetadataForPod")
    @@ ("*corev1.Node" :> "getMetadataForNode")
    @@ ("*corev1.ReplicationController" :> "getMetadataForReplicationController")
    @@ ("*appsv1.Deployment" :> "getMetadataForDeployment")
    @@ ("*appsv1.ReplicaSet" :> "getMetadataForReplicaSet")
    @@ ("*appsv1.DaemonSet" :> "getMetadataForDaemonSet")
    @@ ("*appsv1.StatefulSet" :> "getMetadataForStatefulSet")
    @@ ("*batchv1.Job" :> "getMetadataForJob")
    @@ ("*batchv1.CronJob" :> "getMetadataForCronJob")
    @@ ("*batchv1beta1.CronJob" :> "getMetadataForCronJobBeta")
    @@ ("*autoscalingv2beta2.HorizontalPodAutoscaler" :> "getMetadataForHPA")

EmptyMapping == [isNil |-> FALSE, entries |-> EmptyMap]

\* SyncMetadata dispatches like SyncMetrics but for the kinds in metricsOnly:
\* for every other kind of the metrics switch it invokes that kind's metadata
\* function, and for the metrics-only and the unrecognized kinds it invokes
\* none and returns an empty, non-nil mapping
MetadataDispatch(metricsOnly) ==
    last.op = "SyncMetadata" =>
        IF last.kind \in MetricsKinds \ metricsOnly
        THEN /\ last.invoked # "none"
             /\ last.kind \in DOMAIN C10_MetadataOf =>
                    last.invoked = C10_MetadataOf[last.kind]
        ELSE /\ last.invoked = "none"
             /\ last.km = EmptyMapping

\* C10 as stated: only ResourceQuota and ClusterResourceQuota are
\* metrics-only.
C10_OnlyQuotasAreMetricsOnly ==
    MetadataDispatch({ "*corev1.ResourceQuota", "*quotav1.ClusterResourceQuota" })

\* C10 amended: Namespace, ResourceQuota and ClusterResourceQuota are
\* metrics-only; every other kind of the metrics switch has its metadata
\* function invoked.
C10_NamespaceAndQuotasAreMetricsOnly ==
    MetadataDispatch({ "*corev1.Namespace", "*corev1.ResourceQuota",
                       "*quotav1.ClusterResourceQuota" })

\* C10 witness: SyncMetadata on a Namespace returned the empty mapping
C10_Witness ==
    /\ last.op = "SyncMetadata"
    /\ last.kind = "*corev1.Namespace"
    /\ last.invoked = "none"
    /\ last.km = EmptyMapping

\* the record sets SyncMetrics can supply for an identity in the concurrent
\* runs
SuppliedFor(u) ==
    { SyncMetricsDerive(obj).md :
        obj \in { o \in PodObjects : o.uid = u /\ SyncMetricsDerive(o).write } }

\* what the store holds for an identity once a write has passed its lock
ResultOf(w) == IF w.op = "update" THEN PointsOf(w.md) ELSE {}

OthersUntouched(u) ==
    \A v \in UIDs \ {u} :
        /\ v \in DOMAIN metricsCache' <=> v \in DOMAIN metricsCache
        /\ v \in DOMAIN metricsCache => metricsCache'[v] = metricsCache[v]

\* C12: a change that returns leaves its own identity with exactly the record
\* set it supplied and every other identity as it was; a removal that returns
\* leaves its own identity absent and every other as it was; so when all
\* calls have returned and the last write of every identity was a change, all
\* identities are present, each with the record set supplied for it.
C12_DistinctIdentitiesIndependent ==
    [][ /\ \A g \in Goroutines :
              LET u == frame[g].obj.uid IN
              /\ (pc[g] = "update" /\ pc'[g] = "idle") =>
                    /\ u \in DOMAIN metricsCache'
                    /\ metricsCache'[u] = frame[g].md
                    /\ OthersUntouched(u)
              /\ (pc[g] = "remove" /\ pc'[g] = "idle") =>
                    /\ u \notin DOMAIN metricsCache'
                    /\ OthersUntouched(u)
        /\ (Idle' /\ \A u \in UIDs : written'[u].op = "update") =>
              /\ DOMAIN metricsCache' = UIDs
              /\ \A u \in UIDs : metricsCache'[u] = written'[u].md ]_vars

\* C12 witness: while a change for one identity is still in flight, a change
\* for another identity has returned; both identities hold what was supplied
\* for them
C12_Witness ==
    \E g \in Goroutines :
        /\ pc[g] = "update"
        /\ last.op = "SyncMetrics"
        /\ last.updates = 1
        /\ last.uid # frame[g].obj.uid
        /\ metricsCache[last.uid] = last.md
        /\ frame[g].obj.uid \in DOMAIN metricsCache
        /\ PointsOf(metricsCache[frame[g].obj.uid]) # PointsOf(last.md)

\* C13: in every reachable state an identity is absent or holds exactly one
\* record set that a change supplied whole, and the store shows for it the
\* result of the write that passed the store's lock last: the supplied set
\* after an update, nothing after a removal.
C13_LastWriterWins ==
    \A u \in UIDs :
        /\ u \in DOMAIN metricsCache => metricsCache[u] \in SuppliedFor(u)
        /\ IF written[u].op = "update"
           THEN u \in DOMAIN metricsCache /\ metricsCache[u] = written[u].md
           ELSE u \notin DOMAIN metricsCache

\* C13 witness: a change and a removal raced on one identity; the removal was
\* delivered last but the update passed the lock last, and all calls returned
C13_Witness ==
    /\ Idle
    /\ \E u \in UIDs :
          /\ delivered[u] = "deleted"
          /\ written[u].op = "update"
          /\ metricsCache[u] = written[u].md
    /\ \E u \in UIDs :
          /\ delivered[u] = "changed"
          /\ written[u].op = "remove"

\* C14: a change event delivered again right after itself changes nothing:
\* the store after the second delivery is the store after the first, a
\* collect returns the same records after either, and the second delivery
\* does not crash.
C14_DuplicateChangeIsIdempotent ==
    [][ ( /\ last.op = "SyncMetrics" /\ last'.op = "SyncMetrics"
          /\ last'.kind = last.kind /\ last'.uid = last.uid
          /\ last'.md = last.md ) =>
            /\ metricsCache' = metricsCache
            /\ \A t \in Times : StoreGetMetricData(metricsCache', t)
                                  = StoreGetMetricData(metricsCache, t)
            /\ last'.logged = last.logged
            /\ ~crashed' ]_vars

\* C14 witness: a change with records for a resolvable identity was delivered
\* twice in a row, and the store holds the record set once
C14_Witness ==
    /\ last.op = "SyncMetrics"
    /\ last.dup
    /\ NonEmptyChange(last)
    /\ metricsCache[last.uid] = last.md

C16_NoPermanentLeak ==
    /\ \A u \in UIDs :
          (u \in DOMAIN metricsCache) ~> (u \notin DOMAIN metricsCache)
    /\ \A g \in Goroutines : (pc[g] # "idle") ~> (pc[g] = "idle")

\* the kinds a lookup may name: the registrable ones and one never registered
LookupGVKs == GVKs \cup { "apps/v1, Kind=ReplicaSet" }

\* every lookup answers with an object or NotFound, and with NotFound when
\* the kind has no registered cache or its cache does not hold the key
LookupIsTotal(st) ==
    \A gvk \in LookupGVKs, key \in Keys :
        LET r == StoreGet(st, gvk, key) IN
        /\ r.err \in { "nil", "NotFound" }
        /\ (gvk \notin DOMAIN st \/ key \notin CacheContents[st[gvk]])
              => r.err = "NotFound"

\* C17: SetupMetadataStore makes the lookups of its kind answer from the
\* cache just registered, whether or not one was registered before, and
\* leaves the lookups of every other kind as they were; no other handler
\* changes the registrations; with the registrations of a fresh collector and
\* with those any SetupMetadataStore leaves, a lookup for a kind without a
\* registered cache or for a key its cache does not hold answers NotFound,
\* and no lookup answers with another error.
C17_SetupReplacesAndLookupIsTotal ==
    [][ /\ last'.op = "SetupMetadataStore" =>
              LET gvk == last'.setup.gvk
                  store == last'.setup.store IN
              /\ \A key \in Keys : StoreGet(stores', gvk, key) = CacheGet(store, key)
              /\ \A other \in LookupGVKs \ {gvk}, key \in Keys :
                    StoreGet(stores', other, key) = StoreGet(stores, other, key)
              /\ LookupIsTotal(stores')
              /\ metricsCache' = metricsCache
              /\ ~crashed'
        /\ last'.op # "SetupMetadataStore" => stores' = stores
        /\ last.op = "NewDataCollector" => LookupIsTotal(stores) ]_vars

\* C17 witness: a kind registered with one cache was registered again with
\* another, which holds a key the first does not; the other kind keeps its
\* cache
C17_Witness ==
    /\ last.op = "SetupMetadataStore"
    /\ last.setup.replaced = "informerStoreA"
    /\ last.setup.store = "informerStoreB"
    /\ StoreGet(stores, last.setup.gvk, "default/svc-b").err = "nil"
    /\ \E other \in DOMAIN stores \ {last.setup.gvk} : stores[other] = "informerStoreA"

\* C18: a collect changes neither the metrics store nor the registrations,
\* logs nothing and does not crash; it returns the records of exactly the
\* entries held, so nothing when nothing is held (a fresh collector, or one
\* whose identities were all deleted); a collect right after a collect
\* returns the same records, whatever the two timestamps.
C18_CollectIsPureRead ==
    [][ last'.op = "CollectMetricData" =>
            /\ metricsCache' = metricsCache
            /\ stores' = stores
            /\ last'.logged = <<>>
            /\ ~crashed'
            /\ \A u \in UIDs :
                  RecordsFor(last'.snapshot, u) =
                      IF u \in DOMAIN metricsCache THEN PointsOf(metricsCache[u]) ELSE {}
            /\ DOMAIN metricsCache = {} => last'.snapshot.records = {}
            /\ last.op = "NewDataCollector" => last'.snapshot.records = {}
            /\ last.op = "CollectMetricData" =>
                  last'.snapshot.records = last.snapshot.records ]_vars

\* C18 witness: a collect right after a collect, with another timestamp,
\* returned the records of all the entries held
C18_Witness ==
    /\ last.op = "CollectMetricData"
    /\ last.dup
    /\ last.snapshot.asOf = MaxTime
    /\ \A u \in UIDs : RecordsFor(last.snapshot, u) # {}

\* C19: SyncMetrics does not crash and issues at most one store update; when
\* it issues one, the object is of a kind of the metrics switch (so it is a
\* runtime.Object and the conversion in UpdateMetricsStore succeeds), the
\* derivation is not empty, the entry written is the one of the object's own
\* identity and holds the derivation, and no other entry changes; when it
\* issues none, the store is as it was.
C19_WritesOnlyRecognizedNonEmpty ==
    [][ last'.op = "SyncMetrics" =>
            /\ ~crashed'
            /\ last'.updates \in {0, 1}
            /\ last'.updates = 1 =>
                  /\ last'.kind \in MetricsKinds
                  /\ last'.kind \notin NonObjectKinds
                  /\ last'.invoked # "none"
                  /\ DataPointCount(last'.md) > 0
                  /\ last'.uid \in UIDs =>
                        /\ last'.uid \in DOMAIN metricsCache'
                        /\ metricsCache'[last'.uid] = last'.md
                  /\ OthersUntouched(last'.uid)
            /\ last'.updates = 0 => metricsCache' = metricsCache ]_vars

\* C19 witness: SyncMetrics on a Deployment with a non-empty derivation
\* issued its one update, and the entry of the Deployment's identity holds
\* the derivation
C19_Witness ==
    /\ last.op = "SyncMetrics"
    /\ last.kind = "*appsv1.Deployment"
    /\ last.updates = 1
    /\ last.uid \in UIDs
    /\ metricsCache[last.uid] = last.md
    /\ ~crashed

====
